---- MODULE Spec2Model ----
(***************************************************************************)
(* Model of OmniScript's registry search tool                              *)
(* (src/tools/registry_search.py): the on-disk cache store, the HTTP       *)
(* fetcher, the Docker Hub and Quay search adapters, the tag lister, the   *)
(* tag ranker and the search orchestrator.                                 *)
(*                                                                         *)
(* Four specifications share the variables:                                *)
(*   SpecStore  _get_cached / _set_cached on arbitrary entry files         *)
(*   Spec       the public operations of RegistrySearcher                  *)
(*   SpecRace   one _set_cached interleaved with _get_cached calls         *)
(*   SpecTags   the ranking part of get_best_tag on bounded tag lists      *)
(***************************************************************************)
EXTENDS Integers, Sequences, FiniteSets, TLC

\* CACHE_TTL = 3600  (seconds)
CACHE_TTL == 3600

\* Bounds of the model.
MaxTicks == 1
MaxOps == 2
MaxStoreOps == 3

VARIABLES
    use_cache,  \* RegistrySearcher.use_cache
    now,        \* datetime.now(), in seconds
    store,      \* CACHE_DIR: cache key -> content of CACHE_DIR/<key>.json
    last,       \* what the most recent call did and returned
    written,    \* history: cache key -> the last completed _set_cached for it
    ticks,      \* number of clock advances so far
    ops,        \* number of calls so far
    remote_tags, \* SpecTags: the tag list the registry holds for the image
    writer      \* SpecRace: where the process inside _set_cached stands

vars == <<use_cache, now, store, last, written, ticks, ops, remote_tags, writer>>

----------------------------------------------------------------------------
(* Strings *)

Min(a, b) == IF a < b THEN a ELSE b
Max(a, b) == IF a > b THEN a ELSE b

CharAt(s, i) == SubSeq(s, i, i)

\* F applied to the value of v, which is computed once
With(v, F(_)) == CHOOSE y \in {F(x) : x \in {v}} : TRUE

\* '/' in s
HasSlash(s) == \E i \in 1..Len(s) : CharAt(s, i) = "/"

----------------------------------------------------------------------------
(* The inputs of the model and their cache keys *)

\* Search terms: a plain one and one that holds '/'
Terms == {"nginx", "a/b"}
Limits == {1}

\* The default limit of get_tags
DefaultTagLimit == 50

\* Image references: the same official image written two ways, and another
\* repository
Images == {"my_app", "library/my_app", "library_my/app"}
TagLimits == {DefaultTagLimit}

\* cache_key = f"dockerhub_{term}_{limit}"
\* A Docker Hub key without a prefix of its own.
DockerKeyShared(term, limit) == "quay_" \o term \o "_" \o ToString(limit)

\* cache_key = f"dockerhub_{term}_{limit}"
DockerKey(term, limit) == "dockerhub_" \o term \o "_" \o ToString(limit)
\* cache_key = f"quay_{term}_{limit}"
QuayKey(term, limit) == "quay_" \o term \o "_" \o ToString(limit)

\* image.replace('/', '_')
RECURSIVE ReplaceSlash(_)
ReplaceSlash(s) ==
    IF s = "" THEN ""
    ELSE (IF CharAt(s, 1) = "/" THEN "_" ELSE CharAt(s, 1))
         \o ReplaceSlash(SubSeq(s, 2, Len(s)))

\* if '/' not in image: image = f"library/{image}"
Normalize(image) == IF HasSlash(image) THEN image ELSE "library/" \o image

\* cache_key = f"tags_{image.replace('/', '_')}_{limit}"
TagsKey(image, limit) ==
    "tags_" \o ReplaceSlash(Normalize(image)) \o "_" \o ToString(limit)

\* The keys of the cache store alone
StoreKeys == {"k1", "k2"}

\* Every cache key of the model
AllKeys ==
    {DockerKey(t, l) : t \in Terms, l \in Limits}
    \cup {QuayKey(t, l) : t \in Terms, l \in Limits}
    \cup {TagsKey(i, l) : i \in Images, l \in TagLimits}

\* The keys, computed once for each input
DockerKeys == [t \in Terms |-> [l \in Limits |-> DockerKey(t, l)]]
QuayKeys == [t \in Terms |-> [l \in Limits |-> QuayKey(t, l)]]
TagsKeys == [i \in Images |-> [l \in TagLimits |-> TagsKey(i, l)]]

\* The keys that hold '/': CACHE_DIR / f"{key}.json" then names a file in a
\* directory below CACHE_DIR, which nothing creates.
SlashKeys == {k \in AllKeys \cup StoreKeys : HasSlash(k)}

----------------------------------------------------------------------------
(* Time.  Timestamps are seconds; datetime.now().isoformat() and           *)
(* datetime.fromisoformat() are modelled by the cached_at forms below.     *)

\* The clock of a running program is far more than one TTL after 1970-01-01.
StartTime == 2 * CACHE_TTL

\* Clock advances between calls: one second short of the TTL, or the TTL.
TickSteps == {CACHE_TTL - 1, CACHE_TTL}

----------------------------------------------------------------------------
(* Entry files.  The content of CACHE_DIR/<key>.json is a record           *)
(*   kind      "absent"      no such file                                  *)
(*             "unreadable"  the file exists, open() fails (OSError)       *)
(*             "empty"       zero bytes (what open(..., 'w') leaves)       *)
(*             "truncated"   a proper prefix of a JSON document            *)
(*             "nonjson"     text that is not JSON                         *)
(*             "binary"      bytes that are not valid UTF-8                *)
(*             "array"       a JSON document that is not an object         *)
(*             "object"      a JSON object                                 *)
(*   cached_at for an object: [k |-> "iso", t |-> seconds] a timestamp     *)
(*             isoformat() wrote; "missing" no such field; "malformed" a   *)
(*             string fromisoformat() rejects                              *)
(*   data      for an object: its 'data' field, a list                     *)

NoStamp == [k |-> "missing", t |-> 0]
IsoStamp(t) == [k |-> "iso", t |-> t]
BadStamp == [k |-> "malformed", t |-> 0]

Blob(kind) == [kind |-> kind, cached_at |-> NoStamp, data |-> <<>>]
NoFile == Blob("absent")
Entry(stamp, data) == [kind |-> "object", cached_at |-> stamp, data |-> data]

\* Results of _get_cached: the value returned (hit), None (miss), or an
\* exception that leaves the method.
Hit(v) == [raised |-> FALSE, hit |-> TRUE, value |-> v]
Miss == [raised |-> FALSE, hit |-> FALSE, value |-> <<>>]
Raises == [raised |-> TRUE, hit |-> FALSE, value |-> <<>>]

\* A comparison that also accepts the age of exactly one TTL.
FreshAtMost(age) == age <= CACHE_TTL

\* datetime.now() - cached_at < timedelta(seconds=CACHE_TTL)
Fresh(age) == age < CACHE_TTL

\* datetime.fromisoformat(data.get('cached_at', '1970-01-01')), as seconds
StampTime(stamp) == IF stamp.k = "iso" THEN stamp.t ELSE 0

\* A try block without the except clause.
ReadEntryStrict(f, clock) ==
    IF f.kind = "object" /\ f.cached_at.k # "malformed"
    THEN IF Fresh(clock - StampTime(f.cached_at)) THEN Hit(f.data) ELSE Miss
    ELSE Raises

\* The try block of _get_cached on an existing file.  json.load raises
\* JSONDecodeError on empty, truncated and non-JSON text, which is caught;
\* open() on an unreadable file raises OSError, decoding non-UTF-8 bytes
\* raises UnicodeDecodeError, .get on a list raises AttributeError and
\* fromisoformat on a malformed string raises ValueError: none is caught.
ReadEntry(f, clock) ==
    CASE f.kind \in {"empty", "truncated", "nonjson"} -> Miss
      [] f.kind \in {"unreadable", "binary", "array"} -> Raises
      [] f.kind = "object" ->
            IF f.cached_at.k = "malformed" THEN Raises
            ELSE IF Fresh(clock - StampTime(f.cached_at)) THEN Hit(f.data)
            ELSE Miss
      [] OTHER -> Miss

\* cache_file.exists(): a key holding '/' names a file in a directory that
\* was never created.
Exists(st, key) == key \notin SlashKeys /\ st[key].kind # "absent"

\* RegistrySearcher._get_cached
GetCached(st, clock, uc, key) ==
    IF ~uc THEN Miss
    ELSE IF Exists(st, key) THEN ReadEntry(st[key], clock)
    ELSE Miss

\* A write that appends to the list the entry already holds.
SetCachedMerging(st, clock, uc, key, data) ==
    IF key \in SlashKeys THEN [raised |-> TRUE, store |-> st]
    ELSE [raised |-> FALSE,
          store |-> [st EXCEPT ![key] = Entry(IsoStamp(clock), st[key].data \o data)]]

\* RegistrySearcher._set_cached: open(cache_file, 'w') truncates or creates
\* the file and json.dump writes the new record.  use_cache is not read.
\* open() raises FileNotFoundError when the key holds '/'.
SetCached(st, clock, uc, key, data) ==
    IF key \in SlashKeys THEN [raised |-> TRUE, store |-> st]
    ELSE [raised |-> FALSE,
          store |-> [st EXCEPT ![key] = Entry(IsoStamp(clock), data)]]

----------------------------------------------------------------------------
(* The clock *)

Tick ==
    /\ ticks < MaxTicks
    /\ ops < MaxOps
    /\ \E d \in TickSteps : now' = now + d
    /\ ticks' = ticks + 1
    /\ UNCHANGED <<use_cache, store, last, written, ops, remote_tags, writer>>

----------------------------------------------------------------------------
(* SpecStore: the cache store alone, on entry files of every form *)

StoreValues == {<<>>, <<"a">>, <<"b", "a">>}

\* Ages an entry found on disk can have, around the TTL.
FoundAges == {0, 1, CACHE_TTL - 1, CACHE_TTL, CACHE_TTL + 1}

FoundFiles ==
    {Blob(k) : k \in {"absent", "unreadable", "empty", "truncated",
                      "nonjson", "binary", "array"}}
    \cup {Entry(NoStamp, v) : v \in StoreValues}
    \cup {Entry(BadStamp, v) : v \in StoreValues}
    \cup {Entry(IsoStamp(StartTime - a), v) : a \in FoundAges, v \in StoreValues}

NoCall == [op |-> "none", key |-> "", at |-> 0, raised |-> FALSE,
           hit |-> FALSE, value |-> <<>>]

NeverWritten == [has |-> FALSE, at |-> 0, value |-> <<>>]

\* No process is inside _set_cached.
NoWriter == [pc |-> "idle", key |-> "", prior |-> <<>>, data |-> <<>>, stamp |-> 0]

InitStore ==
    /\ use_cache \in BOOLEAN
    /\ now = StartTime
    /\ \E f \in FoundFiles : store = [k \in StoreKeys |-> IF k = "k1" THEN f ELSE NoFile]
    /\ last = NoCall
    /\ written = [k \in StoreKeys |-> NeverWritten]
    /\ ticks = 0
    /\ ops = 0
    /\ remote_tags = <<>>
    /\ writer = NoWriter

\* A call of _get_cached(key)
CacheRead(key) ==
    /\ ops < MaxStoreOps
    /\ \E r \in {GetCached(store, now, use_cache, key)} :
          last' = [op |-> "read", key |-> key, at |-> now, raised |-> r.raised,
                   hit |-> r.hit, value |-> r.value]
    /\ ops' = ops + 1
    /\ UNCHANGED <<use_cache, now, store, written, ticks, remote_tags, writer>>

\* A call of _set_cached(key, data)
CacheWrite(key, data) ==
    /\ ops < MaxStoreOps
    /\ \E w \in {SetCached(store, now, use_cache, key, data)} :
          /\ store' = w.store
          /\ last' = [op |-> "write", key |-> key, at |-> now, raised |-> w.raised,
                      hit |-> FALSE, value |-> data]
          /\ written' = IF w.raised THEN written
                        ELSE [written EXCEPT ![key] =
                                 [has |-> TRUE, at |-> now, value |-> data]]
    /\ ops' = ops + 1
    /\ UNCHANGED <<use_cache, now, ticks, remote_tags, writer>>

NextStore ==
    \/ Tick
    \/ \E k \in StoreKeys : CacheRead(k)
    \/ \E k \in StoreKeys, v \in StoreValues : CacheWrite(k, v)

SpecStore == InitStore /\ [][NextStore]_vars

\* The state right after a _get_cached call with caching enabled; the entry
\* file it read is still store[last.key].
AfterRead == last.op = "read" /\ use_cache
ReadFile == store[last.key]
WellFormed(f) == f.kind = "object" /\ f.cached_at.k = "iso"
ReadAge == last.at - ReadFile.cached_at.t

\* C3: a cache read never raises, whatever the entry file holds, and every
\* corrupt or unreadable entry yields 'no value'.
C3_ReadNeverRaises ==
    AfterRead => /\ ~last.raised
                 /\ (~WellFormed(ReadFile) => ~last.hit)

\* C4 as stated: for a well-formed entry the read is a hit exactly when the
\* entry's age is <= TTL.
C4_HitIffAgeAtMostTTL ==
    (AfterRead /\ WellFormed(ReadFile)) =>
        (last.hit <=> ReadAge <= CACHE_TTL)

\* C4 amended: for a well-formed entry the read is a hit, returning the
\* payload, exactly when the entry's age is < TTL; at age = TTL and above it
\* returns 'no value'.
C4_HitIffAgeBelowTTL ==
    (AfterRead /\ WellFormed(ReadFile)) =>
        /\ ~last.raised
        /\ last.hit <=> ReadAge < CACHE_TTL
        /\ last.hit => last.value = ReadFile.data

\* C4 witness: a well-formed entry read at the age of exactly one TTL, a miss.
C4_Witness ==
    /\ AfterRead /\ WellFormed(ReadFile)
    /\ ReadAge = CACHE_TTL
    /\ ~last.hit

\* C5: with caching enabled, a read of K less than one TTL after the last
\* write to K returns exactly the value of that write, whatever was written
\* to K before it and whatever was written to other keys since.
C5_ReadReturnsLastWrite ==
    (AfterRead /\ written[last.key].has
               /\ last.at - written[last.key].at < CACHE_TTL) =>
        /\ ~last.raised
        /\ last.hit
        /\ last.value = written[last.key].value

\* C5 witness: K was overwritten, another key was written after it, and the
\* read of K returned K's last value.
C5_Witness ==
    /\ AfterRead /\ ops >= 3
    /\ last.hit
    /\ written[last.key].has
    /\ last.value = written[last.key].value
    /\ \E k \in StoreKeys \ {last.key} :
          written[k].has /\ written[k].at >= written[last.key].at
                         /\ written[k].value # last.value

----------------------------------------------------------------------------
(* SpecRace: one _set_cached(RaceKey, V2) interleaved with _get_cached     *)
(* calls, RaceKey holding the entry of a completed write of V1.  The write *)
(* is three file-system steps: open(cache_file, 'w') truncates the file,   *)
(* json.dump hands the text to the buffered file, which may reach the disk *)
(* in parts, and leaving the with block flushes the rest and closes.  A    *)
(* read loads a file of this size in one step.                             *)

RaceKey == "k1"
RaceValues == {<<>>, <<"a">>, <<"b", "a">>}

InitRace ==
    /\ use_cache = TRUE
    /\ now = StartTime
    /\ \E v1 \in RaceValues, v2 \in RaceValues :
          /\ v1 # v2
          /\ store = [k \in StoreKeys |->
                        IF k = RaceKey THEN Entry(IsoStamp(StartTime), v1) ELSE NoFile]
          /\ written = [k \in StoreKeys |->
                        IF k = RaceKey THEN [has |-> TRUE, at |-> StartTime, value |-> v1]
                        ELSE NeverWritten]
          /\ writer = [pc |-> "idle", key |-> RaceKey, prior |-> v1, data |-> v2,
                       stamp |-> 0]
    /\ last = [NoCall EXCEPT !.key = "idle"]
    /\ ticks = 0
    /\ ops = 0
    /\ remote_tags = <<>>

\* A write that prepares the record elsewhere and leaves the entry file as
\* it is until the record is complete.
WriterOpenAside ==
    /\ writer.pc = "idle"
    /\ writer' = [writer EXCEPT !.pc = "open", !.stamp = now]
    /\ UNCHANGED <<use_cache, now, store, last, written, ticks, ops, remote_tags>>

\* with open(cache_file, 'w') as f: the file is created or cut to zero bytes;
\* the record to dump is built next, with the clock's value as cached_at.
WriterOpen ==
    /\ writer.pc = "idle"
    /\ store' = [store EXCEPT ![writer.key] = Blob("empty")]
    /\ writer' = [writer EXCEPT !.pc = "open", !.stamp = now]
    /\ UNCHANGED <<use_cache, now, last, written, ticks, ops, remote_tags>>

\* json.dump: a part of the text reaches the file before the rest.
WriterFlush ==
    /\ writer.pc = "open"
    /\ store' = [store EXCEPT ![writer.key] = Blob("truncated")]
    /\ writer' = [writer EXCEPT !.pc = "flushed"]
    /\ UNCHANGED <<use_cache, now, last, written, ticks, ops, remote_tags>>

\* The end of the with block: the whole record is in the file.
WriterClose ==
    /\ writer.pc \in {"open", "flushed"}
    /\ store' = [store EXCEPT ![writer.key] = Entry(IsoStamp(writer.stamp), writer.data)]
    /\ written' = [written EXCEPT ![writer.key] =
                      [has |-> TRUE, at |-> writer.stamp, value |-> writer.data]]
    /\ writer' = [writer EXCEPT !.pc = "done"]
    /\ UNCHANGED <<use_cache, now, last, ticks, ops, remote_tags>>

\* A call of _get_cached(RaceKey) by another process; last.key keeps the
\* writer's position at the time of the read.
RaceRead ==
    /\ ops < MaxOps
    /\ \E r \in {GetCached(store, now, use_cache, RaceKey)} :
          last' = [op |-> "read", key |-> writer.pc, at |-> now, raised |-> r.raised,
                   hit |-> r.hit, value |-> r.value]
    /\ ops' = ops + 1
    /\ UNCHANGED <<use_cache, now, store, written, ticks, remote_tags, writer>>

NextRace ==
    \/ Tick
    \/ WriterOpen
    \/ WriterFlush
    \/ WriterClose
    \/ RaceRead

SpecRace == InitRace /\ [][NextRace]_vars

\* A read made while the entry of the first write is still fresh; the entry
\* of the second write, stamped later, is fresh as well.
RaceReadFresh == last.op = "read" /\ last.at - StartTime < CACHE_TTL

\* C9 as stated: the write is atomic for readers; a read sees the complete
\* prior entry or the complete new entry, never an empty or partly written
\* one, so it returns the prior value or the new value.
C9_ReadSeesOldOrNew ==
    RaceReadFresh =>
        /\ last.hit
        /\ last.value \in {writer.prior, writer.data}

\* C9 amended: a read before the write opens the file returns the prior
\* value and a read after the write closed the file returns the new value;
\* a read in between finds the file empty or partly written and returns
\* 'no value' without raising.
C9_ReadSeesOldNewOrNothing ==
    RaceReadFresh =>
        /\ ~last.raised
        /\ (last.key = "idle") => (last.hit /\ last.value = writer.prior)
        /\ (last.key = "done") => (last.hit /\ last.value = writer.data)
        /\ (last.key \in {"open", "flushed"}) => ~last.hit

\* C9 witness: a read found the partly written file and returned 'no value'.
C9_Witness ==
    /\ RaceReadFresh
    /\ last.key = "flushed"
    /\ ~last.hit /\ ~last.raised

\* C15: a read that races a write of the same key returns the prior
\* payload, the new payload or 'no value'; it never raises and never returns
\* another value.
C15_RacingReadIsMiss ==
    (last.op = "read") =>
        /\ ~last.raised
        /\ last.hit => last.value \in {writer.prior, writer.data}

\* C15 witness: a read made right after the file was cut to zero bytes
\* returned 'no value' although the prior entry was fresh.
C15_Witness ==
    /\ RaceReadFresh
    /\ last.key = "open"
    /\ ~last.hit /\ ~last.raised

----------------------------------------------------------------------------
(* The HTTP fetcher.  What one GET meets is an outcome                     *)
(*   kind  "urlerror"      urlopen raises URLError (no route, HTTP error)  *)
(*         "read_timeout"  the 10 s timeout expires while the response is  *)
(*                         read: socket.timeout, which is no URLError      *)
(*         "undecodable"   the body is not UTF-8: UnicodeDecodeError       *)
(*         "nonjson"       json.loads raises JSONDecodeError               *)
(*         "no_results"    a JSON object without the 'results' field       *)
(*         "ok"            a JSON object whose 'results' is `results`      *)

Failure(kind) == [kind |-> kind, results |-> <<>>]
Ok(results) == [kind |-> "ok", results |-> results]

FailureKinds == {"urlerror", "read_timeout", "undecodable", "nonjson", "no_results"}

\* RegistrySearcher._http_get: the parsed body, None (with a diagnostic on
\* stderr) for the two exceptions it catches, or the exception otherwise.
HttpGet(resp) ==
    CASE resp.kind \in {"urlerror", "nonjson"} ->
            [raised |-> FALSE, none |-> TRUE, has_results |-> FALSE, results |-> <<>>]
      [] resp.kind \in {"read_timeout", "undecodable"} ->
            [raised |-> TRUE, none |-> TRUE, has_results |-> FALSE, results |-> <<>>]
      [] resp.kind = "no_results" ->
            [raised |-> FALSE, none |-> FALSE, has_results |-> FALSE, results |-> <<>>]
      [] OTHER ->
            [raised |-> FALSE, none |-> FALSE, has_results |-> TRUE, results |-> resp.results]

\* not data or 'results' not in data
\* A test that lets every answer through.
NoDataNever(d) == FALSE

\* not data or 'results' not in data
NoData(d) == d.none \/ ~d.has_results

----------------------------------------------------------------------------
(* ImageResult and the two adapters *)

\* s[:n] of a string, n >= 0
Prefix(s, n) == SubSeq(s, 1, Min(Len(s), n))

\* seq[:limit] of a list, as Python slices: a negative limit counts from the end
PySliceWhole(seq, limit) == seq

PySlice(seq, limit) ==
    IF limit >= 0 THEN SubSeq(seq, 1, Min(Len(seq), limit))
    ELSE SubSeq(seq, 1, Max(Len(seq) + limit, 0))

\* ImageResult(name, registry, description, stars, pulls, official), with
\* the default latest_tag
ImageResult(name, registry, description, stars, pulls, official) ==
    [name |-> name, registry |-> registry, description |-> description,
     stars |-> stars, pulls |-> pulls, official |-> official,
     latest_tag |-> "latest"]

\* ImageResult.to_dict, and ImageResult(**r) of a cached record
to_dict(r) ==
    [name |-> r.name, registry |-> r.registry, description |-> r.description,
     stars |-> r.stars, pulls |-> r.pulls, official |-> r.official,
     latest_tag |-> r.latest_tag]
from_dict(d) ==
    [name |-> d.name, registry |-> d.registry, description |-> d.description,
     stars |-> d.stars, pulls |-> d.pulls, official |-> d.official,
     latest_tag |-> d.latest_tag]

Map(f(_), seq) == [i \in 1..Len(seq) |-> f(seq[i])]

\* A Docker Hub record; has_desc is whether short_description is a string
\* (it may be missing or null).
DockerResult(item) ==
    ImageResult(item.repo_name, "docker.io",
                Prefix(IF item.has_desc THEN item.short_description ELSE "", 100),
                item.star_count, item.pull_count, item.is_official)

\* A Quay record
QuayResult(item) ==
    ImageResult("quay.io/" \o item.namespace \o "/" \o item.name, "quay.io",
                Prefix(item.description, 100), 0, 0, FALSE)

\* What one call of an operation did: `raised` an exception left it,
\* `fetches` network calls were issued, `hit` the result came from the cache.
Raised(st, fetches) ==
    [raised |-> TRUE, fetches |-> fetches, hit |-> FALSE, result |-> <<>>, store |-> st]
Returned(st, fetches, hit, result) ==
    [raised |-> FALSE, fetches |-> fetches, hit |-> hit, result |-> result, store |-> st]

\* `if cached:` an empty list is falsy, like None
Truthy(c) == c.hit /\ c.value # <<>>

\* The part of a search after the cache miss: fetch, map, cache, return.
FetchAndCache(st, clock, uc, key, resp, results(_), payload(_)) ==
    LET Store(rs) ==
            LET Written(w) == IF w.raised THEN Raised(w.store, 1)
                              ELSE Returned(w.store, 1, FALSE, rs)
            IN  With(SetCached(st, clock, uc, key, payload(rs)), Written)
        Fetched(data) ==
            IF data.raised THEN Raised(st, 1)
            ELSE IF NoData(data) THEN Returned(st, 1, FALSE, <<>>)
            ELSE With(results(data.results), Store)
    IN  With(HttpGet(resp), Fetched)

DockerResults(items) == Map(DockerResult, items)
Dicts(rs) == Map(to_dict, rs)

\* RegistrySearcher.search_docker_hub
search_docker_hub(st, clock, uc, term, limit, resp) ==
    LET Search(cache_key) ==
            LET Looked(cached) ==
                    IF cached.raised THEN Raised(st, 0)
                    ELSE IF Truthy(cached)
                    THEN Returned(st, 0, TRUE, Map(from_dict, cached.value))
                    ELSE FetchAndCache(st, clock, uc, cache_key, resp, DockerResults, Dicts)
            IN  With(GetCached(st, clock, uc, cache_key), Looked)
    IN  Search(DockerKeys[term][limit])

\* RegistrySearcher.search_quay
search_quay(st, clock, uc, term, limit, resp) ==
    LET QuayResults(items) == Map(QuayResult, PySlice(items, limit))
        Search(cache_key) ==
            LET Looked(cached) ==
                    IF cached.raised THEN Raised(st, 0)
                    ELSE IF Truthy(cached)
                    THEN Returned(st, 0, TRUE, Map(from_dict, cached.value))
                    ELSE FetchAndCache(st, clock, uc, cache_key, resp, QuayResults, Dicts)
            IN  With(GetCached(st, clock, uc, cache_key), Looked)
    IN  Search(QuayKeys[term][limit])

\* RegistrySearcher.search_all: the dict display calls search_docker_hub,
\* then search_quay; an exception from the first leaves the second uncalled.
search_all(st, clock, uc, term, limit, respHub, respQuay) ==
    LET Hub(d) ==
            LET Quay(q) ==
                    [raised |-> q.raised, fetches |-> d.fetches + q.fetches,
                     hub_fetched |-> d.fetches = 1, store |-> q.store,
                     docker_hub |-> IF q.raised THEN <<>> ELSE d.result,
                     quay |-> q.result]
            IN  IF d.raised
                THEN [raised |-> TRUE, fetches |-> d.fetches,
                      hub_fetched |-> d.fetches = 1, store |-> d.store,
                      docker_hub |-> <<>>, quay |-> <<>>]
                ELSE With(search_quay(d.store, clock, uc, term, limit, respQuay), Quay)
    IN  With(search_docker_hub(st, clock, uc, term, limit, respHub), Hub)

----------------------------------------------------------------------------
(* The tag lister *)

\* [t['name'] for t in data['results'] if 'name' in t]
RECURSIVE TagNames(_)
TagNames(items) ==
    IF items = <<>> THEN <<>>
    ELSE (IF Head(items).has_name THEN <<Head(items).name>> ELSE <<>>)
         \o TagNames(Tail(items))

SameList(tags) == tags

\* RegistrySearcher.get_tags
get_tags(st, clock, uc, image, limit, resp) ==
    LET Lookup(cache_key) ==
            LET Looked(cached) ==
                    IF cached.raised THEN Raised(st, 0)
                    ELSE IF Truthy(cached) THEN Returned(st, 0, TRUE, cached.value)
                    ELSE FetchAndCache(st, clock, uc, cache_key, resp, TagNames, SameList)
            IN  With(GetCached(st, clock, uc, cache_key), Looked)
    IN  Lookup(TagsKeys[image][limit])

----------------------------------------------------------------------------
(* The tag ranker *)

Digits == "0123456789"
LowerLetters == "abcdefghijklmnopqrstuvwxyz"
UpperLetters == "ABCDEFGHIJKLMNOPQRSTUVWXYZ"

Chars(s) == {CharAt(s, i) : i \in 1..Len(s)}
IndexIn(s, c) == CHOOSE i \in 1..Len(s) : CharAt(s, i) = c

DigitChars == Chars(Digits)
UpperChars == Chars(UpperLetters)
WordChars == Chars(Digits) \cup Chars(LowerLetters) \cup Chars(UpperLetters) \cup {"_"}

\* \d and \w of the pattern, on ASCII
IsDigit(c) == c \in DigitChars
IsWordChar(c) == c \in WordChars

\* str.lower
LowerChar(c) ==
    IF c \in UpperChars THEN CharAt(LowerLetters, IndexIn(UpperLetters, c)) ELSE c
RECURSIVE Lower(_)
Lower(s) == IF s = "" THEN "" ELSE LowerChar(CharAt(s, 1)) \o Lower(SubSeq(s, 2, Len(s)))

\* exclude
Exclude == {"latest", "edge", "nightly", "dev", "develop", "master",
            "main", "unstable", "beta", "alpha", "rc", "test", "testing"}

\* Positions after one or more characters of a class, starting at position i.
RunEnds(s, i, InClass(_)) ==
    {j \in (i + 1)..(Len(s) + 1) : \A k \in i..(j - 1) : InClass(CharAt(s, k))}

\* Positions after an optional group <sep><class>+ started at a position of P.
Optional(s, P, sep, InClass(_)) ==
    P \cup UNION {RunEnds(s, p + 1, InClass) : p \in {q \in P : q <= Len(s) /\ CharAt(s, q) = sep}}

\* semver_pattern.match(t): ^v?\d+(\.\d+)?(\.\d+)?(-[\w]+)?$ ; $ also matches
\* before a newline that ends the string.
SemverMatch(s) ==
    LET p0 == {1} \cup (IF Len(s) >= 1 /\ CharAt(s, 1) = "v" THEN {2} ELSE {})
        p1 == UNION {RunEnds(s, p, IsDigit) : p \in p0}
        p2 == Optional(s, p1, ".", IsDigit)
        p3 == Optional(s, p2, ".", IsDigit)
        p4 == Optional(s, p3, "-", IsWordChar)
    IN  \E p \in p4 : \/ p = Len(s) + 1
                      \/ p = Len(s) /\ CharAt(s, p) = "\n"

\* s holds w as a substring
Contains(s, w) ==
    \E i \in 1..(Len(s) - Len(w) + 1) : SubSeq(s, i, i + Len(w) - 1) = w
HasExcludedWord(t) == \E w \in Exclude : Contains(Lower(t), w)

\* A filter that also drops every tag holding an excluded word anywhere.
IsValidTagNoPrerelease(t) == ~HasExcludedWord(t) /\ SemverMatch(t)

\* t.lower() not in exclude and semver_pattern.match(t)
IsValidTag(t) == Lower(t) \notin Exclude /\ SemverMatch(t)

\* tag.lstrip('v')
RECURSIVE LStripV(_)
LStripV(s) == IF s # "" /\ CharAt(s, 1) = "v" THEN LStripV(SubSeq(s, 2, Len(s))) ELSE s

\* re.split(r'[-.]', t)
RECURSIVE SplitFrom(_, _, _)
SplitFrom(s, i, part) ==
    IF i > Len(s) THEN <<part>>
    ELSE IF CharAt(s, i) \in {"-", "."} THEN <<part>> \o SplitFrom(s, i + 1, "")
    ELSE SplitFrom(s, i + 1, part \o CharAt(s, i))
Split(s) == SplitFrom(s, 1, "")

\* The value of a string of digits and underscores, left to right.
RECURSIVE DigitsValue(_, _)
DigitsValue(s, acc) ==
    IF s = "" THEN acc
    ELSE DigitsValue(SubSeq(s, 2, Len(s)),
                     IF CharAt(s, 1) = "_" THEN acc
                     ELSE 10 * acc + (IndexIn(Digits, CharAt(s, 1)) - 1))

\* str.strip of the whitespace a part can hold
RECURSIVE RStripNewline(_)
RStripNewline(s) ==
    IF s # "" /\ CharAt(s, Len(s)) = "\n" THEN RStripNewline(SubSeq(s, 1, Len(s) - 1)) ELSE s

\* int(p) succeeds on digits with single underscores between them,
\* surrounded by whitespace; it raises ValueError on anything else.
IsIntLiteral(p) ==
    LET q == RStripNewline(p)
    IN  /\ q # ""
        /\ \A i \in 1..Len(q) : IsDigit(CharAt(q, i)) \/ CharAt(q, i) = "_"
        /\ IsDigit(CharAt(q, 1)) /\ IsDigit(CharAt(q, Len(q)))
        /\ \A i \in 1..(Len(q) - 1) : ~(CharAt(q, i) = "_" /\ CharAt(q, i + 1) = "_")

\* try: int(p) except ValueError: 0
IntOrZero(p) == IF IsIntLiteral(p) THEN DigitsValue(RStripNewline(p), 0) ELSE 0

\* A key that keeps the first component only.
version_key_major(tag) ==
    [i \in 1..4 |-> IF i = 1 THEN IntOrZero(Split(LStripV(tag))[1]) ELSE 0]

\* version_key
version_key(tag) ==
    LET parts == Split(LStripV(tag))
        first == SubSeq(parts, 1, Min(Len(parts), 4))
    IN  [i \in 1..4 |-> IF i <= Len(first) THEN IntOrZero(first[i]) ELSE 0]

\* a < b for two lists of four integers
KeyLess(a, b) ==
    \E i \in 1..4 : a[i] < b[i] /\ \A j \in 1..(i - 1) : a[j] = b[j]

\* list.sort(key=version_key, reverse=True): a stable sort, so tags of equal
\* key keep their order.
\* An insertion that puts a tag in front of the tags of equal key.
RECURSIVE InsertDescFront(_, _)
InsertDescFront(x, sorted) ==
    IF sorted = <<>> THEN <<x>>
    ELSE IF ~KeyLess(version_key(x), version_key(Head(sorted))) THEN <<x>> \o sorted
    ELSE <<Head(sorted)>> \o InsertDescFront(x, Tail(sorted))

RECURSIVE InsertDesc(_, _)
InsertDesc(x, sorted) ==
    IF sorted = <<>> THEN <<x>>
    ELSE IF KeyLess(version_key(Head(sorted)), version_key(x)) THEN <<x>> \o sorted
    ELSE <<Head(sorted)>> \o InsertDesc(x, Tail(sorted))

RECURSIVE SortDescFirst(_, _)
SortDescFirst(seq, n) ==
    IF n = 0 THEN <<>> ELSE InsertDesc(seq[n], SortDescFirst(seq, n - 1))
SortDesc(seq) == SortDescFirst(seq, Len(seq))

\* valid_tags of get_best_tag
ValidTags(tags) == SelectSeq(tags, IsValidTag)

\* A ranker that answers the first tag of the list, whatever it is.
BestOfFirst(tags) == IF tags = <<>> THEN "latest" ELSE tags[1]

\* A ranker without the fallback to the first tag of the list.
BestOfNoFallback(tags) ==
    IF ValidTags(tags) = <<>> THEN "latest" ELSE SortDesc(ValidTags(tags))[1]

\* get_best_tag after the tag list is fetched
BestOf(tags) ==
    IF tags = <<>> THEN "latest"
    ELSE LET valid_tags == ValidTags(tags)
         IN  IF valid_tags = <<>> THEN tags[1]
             ELSE SortDesc(valid_tags)[1]

\* RegistrySearcher.get_best_tag
get_best_tag(st, clock, uc, image, resp) ==
    LET Rank(t) ==
            [raised |-> t.raised, fetches |-> t.fetches, hit |-> t.hit,
             result |-> t.result, store |-> t.store,
             best |-> IF t.raised THEN "" ELSE BestOf(t.result)]
    IN  With(get_tags(st, clock, uc, image, DefaultTagLimit, resp), Rank)

----------------------------------------------------------------------------
(* Spec: the public operations of one RegistrySearcher, a clock, and the   *)
(* registries' answers chosen anew at every call                           *)

MaxResults == 2

\* The i-th record of a registry's answer
DockerItem(i) ==
    [repo_name |-> "repo" \o ToString(i), has_desc |-> (i % 2 = 1),
     short_description |-> IF i % 2 = 1 THEN "An image" ELSE "",
     star_count |-> i, pull_count |-> 10 * i, is_official |-> (i = 1)]
QuayItem(i) ==
    [namespace |-> "org", name |-> "repo" \o ToString(i), description |-> "A repository"]
\* The tags endpoint answers with the tags of the repository asked for, which
\* differ from one repository to the other; every second record lacks the
\* 'name' field.
RepoNumber(image) == IF image = "library/my_app" THEN 1 ELSE 2
TagItem(image, i) ==
    [has_name |-> (i % 2 = 1),
     name |-> ToString(RepoNumber(image)) \o "." \o ToString(i)]

Answers(Item(_)) ==
    {Failure(k) : k \in FailureKinds}
    \cup {Ok([i \in 1..n |-> Item(i)]) : n \in {0, MaxResults}}

DockerAnswers == Answers(DockerItem)
QuayAnswers == Answers(QuayItem)

\* search_all meets one answer of each kind of outcome at either registry:
\* a caught failure, an uncaught one, an empty page and a full page.
PairKinds == {"urlerror", "read_timeout", "ok"}
DockerPairAnswers == {a \in DockerAnswers : a.kind \in PairKinds}
QuayPairAnswers == {a \in QuayAnswers : a.kind \in PairKinds}
TagAnswers(image) == LET Item(i) == TagItem(Normalize(image), i) IN Answers(Item)
TagAnswersOf == [i \in Images |-> TagAnswers(i)]

NoAnswer == Failure("none")

\* The record of a call kept in `last`
Call(op, arg, limit, r, resp, resp2) ==
    [op |-> op, arg |-> arg, limit |-> limit, at |-> now,
     raised |-> r.raised, fetches |-> r.fetches, hit |-> r.hit,
     result |-> r.result, resp |-> resp, resp2 |-> resp2]

\* The answer a call met, when it issued the n-th of its network calls
Met(fetches, n, resp) == IF fetches >= n THEN resp ELSE NoAnswer

Init ==
    /\ use_cache \in BOOLEAN
    /\ now = StartTime
    /\ store = [k \in AllKeys |-> NoFile]
    /\ last = [op |-> "none", arg |-> "", limit |-> 0, at |-> 0,
               raised |-> FALSE, fetches |-> 0, hit |-> FALSE,
               result |-> <<>>, resp |-> NoAnswer, resp2 |-> NoAnswer]
    /\ written = <<>>
    /\ ticks = 0
    /\ ops = 0
    /\ remote_tags = <<>>
    /\ writer = NoWriter

SearchDockerHub(term, limit, resp) ==
    /\ ops < MaxOps
    /\ \E r \in {search_docker_hub(store, now, use_cache, term, limit, resp)} :
          /\ store' = r.store
          /\ last' = Call("search_docker_hub", term, limit, r, Met(r.fetches, 1, resp), NoAnswer)
    /\ ops' = ops + 1
    /\ UNCHANGED <<use_cache, now, written, ticks, remote_tags, writer>>

SearchQuay(term, limit, resp) ==
    /\ ops < MaxOps
    /\ \E r \in {search_quay(store, now, use_cache, term, limit, resp)} :
          /\ store' = r.store
          /\ last' = Call("search_quay", term, limit, r, Met(r.fetches, 1, resp), NoAnswer)
    /\ ops' = ops + 1
    /\ UNCHANGED <<use_cache, now, written, ticks, remote_tags, writer>>

\* search_all returns {'docker_hub': ..., 'quay': ...}: `result` is the pair
\* <<docker_hub, quay>> of the two entries.
SearchAll(term, limit, respHub, respQuay) ==
    /\ ops < MaxOps
    /\ \E r \in {search_all(store, now, use_cache, term, limit, respHub, respQuay)} :
          /\ store' = r.store
          /\ last' = [op |-> "search_all", arg |-> term, limit |-> limit, at |-> now,
                      raised |-> r.raised, fetches |-> r.fetches, hit |-> FALSE,
                      result |-> IF r.raised THEN <<>> ELSE <<r.docker_hub, r.quay>>,
                      resp |-> IF r.hub_fetched THEN respHub ELSE NoAnswer,
                      resp2 |-> IF r.fetches = 2 \/ (r.fetches = 1 /\ ~r.hub_fetched)
                                THEN respQuay ELSE NoAnswer]
    /\ ops' = ops + 1
    /\ UNCHANGED <<use_cache, now, written, ticks, remote_tags, writer>>

GetTags(image, limit, resp) ==
    /\ ops < MaxOps
    /\ \E r \in {get_tags(store, now, use_cache, image, limit, resp)} :
          /\ store' = r.store
          /\ last' = Call("get_tags", image, limit, r, Met(r.fetches, 1, resp), NoAnswer)
    /\ ops' = ops + 1
    /\ UNCHANGED <<use_cache, now, written, ticks, remote_tags, writer>>

\* get_best_tag returns one tag: `result` is <<tag>>.
GetBestTag(image, resp) ==
    /\ ops < MaxOps
    /\ \E r \in {get_best_tag(store, now, use_cache, image, resp)} :
          /\ store' = r.store
          /\ last' = [op |-> "get_best_tag", arg |-> image, limit |-> DefaultTagLimit,
                      at |-> now, raised |-> r.raised, fetches |-> r.fetches,
                      hit |-> r.hit,
                      result |-> IF r.raised THEN <<>> ELSE <<r.best>>,
                      resp |-> Met(r.fetches, 1, resp), resp2 |-> NoAnswer]
    /\ ops' = ops + 1
    /\ UNCHANGED <<use_cache, now, written, ticks, remote_tags, writer>>

Next ==
    \/ Tick
    \/ \E t \in Terms, l \in Limits, a \in DockerAnswers : SearchDockerHub(t, l, a)
    \/ \E t \in Terms, l \in Limits, a \in QuayAnswers : SearchQuay(t, l, a)
    \/ \E t \in Terms, l \in Limits, a \in DockerPairAnswers, b \in QuayPairAnswers :
          SearchAll(t, l, a, b)
    \/ \E i \in Images, l \in TagLimits : \E a \in TagAnswersOf[i] : GetTags(i, l, a)
    \/ \E i \in Images : \E a \in TagAnswersOf[i] : GetBestTag(i, a)

Spec == Init /\ [][Next]_vars

\* A step that is a call, and the calls that are searches of one adapter
IsCall == ops' = ops + 1
SearchOps == {"search_docker_hub", "search_quay"}
AllOps == {"search_docker_hub", "search_quay", "search_all", "get_tags", "get_best_tag"}
EmptyStore == [k \in AllKeys |-> NoFile]

\* C1, in the case of a first fetch that succeeded: with caching enabled,
\* when a search returned after fetching a response that holds a results
\* list (possibly empty), the identical search made less than one TTL later
\* issues no network call and is served from the cache.
C1_SecondSearchFromCache ==
    [][(/\ IsCall /\ use_cache
        /\ last.op \in SearchOps /\ last'.op = last.op
        /\ last'.arg = last.arg /\ last'.limit = last.limit
        /\ ~last.raised /\ last.fetches = 1 /\ last.resp.kind = "ok"
        /\ last'.at - last.at < CACHE_TTL)
       => (last'.fetches = 0 /\ last'.hit)]_vars

\* C2: with caching disabled no call changes the cache store.
C2_DisabledCacheUntouched ==
    ~use_cache => store = EmptyStore

\* A fetch that "returns nothing": _http_get returned None, or a body
\* without the results field.
Nothing(resp) == resp.kind \in {"urlerror", "nonjson", "no_results"}

\* C6: search_all always returns a map with one entry for docker_hub and one
\* for quay; an adapter whose fetch returned nothing has the empty sequence,
\* and the other adapter's entry is what that adapter returns on its own.
C6_SearchAllIsolatesFailure ==
    [][(IsCall /\ last'.op = "search_all") =>
          /\ ~last'.raised
          /\ Len(last'.result) = 2
          /\ Nothing(last'.resp) =>
                /\ last'.result[1] = <<>>
                /\ last'.result[2] =
                      search_quay(store, now, use_cache, last'.arg, last'.limit,
                                  last'.resp2).result
          /\ Nothing(last'.resp2) =>
                /\ last'.result[2] = <<>>
                /\ last'.result[1] =
                      search_docker_hub(store, now, use_cache, last'.arg, last'.limit,
                                        last'.resp).result]_vars

\* C7: no operation raises, whatever the cache holds and the fetch meets.
C7_NoOperationRaises ==
    last.op \in AllOps => ~last.raised

\* C8 as stated: a search of either adapter returns at most limit results.
C8_AtMostLimit ==
    (last.op \in SearchOps /\ ~last.raised) => Len(last.result) <= last.limit

\* C8 amended: a Quay search with limit >= 0 returns at most limit results,
\* from the network or from the cache, whatever the response holds; a Docker
\* Hub search that fetched returns one result for each record of the
\* response, however many there are.
C8_QuayAtMostLimit ==
    /\ (last.op = "search_quay" /\ ~last.raised /\ last.limit >= 0)
          => Len(last.result) <= last.limit
    /\ (last.op = "search_docker_hub" /\ ~last.raised /\ last.fetches = 1)
          => Len(last.result) = Len(last.resp.results)

\* C8 witness: a Quay search served from the cache returns limit results
\* after the fetch that filled the cache met more records than limit.
C8_Witness ==
    /\ last.op = "search_quay" /\ last.hit
    /\ Len(last.result) = last.limit
    /\ MaxResults > last.limit
    /\ Len(store[QuayKey(last.arg, last.limit)].data) = last.limit

\* Names and limits that could make keys of two operations meet
KeyNames == Terms \cup Images \cup
            {"tags", "quay", "dockerhub", "library", "quay_nginx", "tags_library_nginx",
             "library_nginx", "nginx_1"}
KeyLimits == Limits \cup TagLimits \cup {0, 10, 25, -1}
KeysDisjoint ==
    \A a \in KeyNames, b \in KeyNames, l \in KeyLimits, m \in KeyLimits :
        /\ DockerKey(a, l) # QuayKey(b, m)
        /\ DockerKey(a, l) # TagsKey(b, m)
        /\ QuayKey(a, l) # TagsKey(b, m)
EntriesOf(registry, rs) == \A i \in 1..Len(rs) : rs[i].registry = registry

\* C14: the keys of a Docker Hub search, a Quay search and a tag lookup are
\* pairwise different for all terms, images and limits, so a search served
\* from the cache returns entries its own operation wrote.
C14_KeysNamespaced ==
    /\ KeysDisjoint
    /\ (last.op = "search_docker_hub" /\ last.hit) => EntriesOf("docker.io", last.result)
    /\ (last.op = "search_quay" /\ last.hit) => EntriesOf("quay.io", last.result)

\* C14 witness: a Quay search served from the cache while the cache holds a
\* Docker Hub entry for the same term and limit.
C14_Witness ==
    /\ last.op = "search_quay" /\ last.hit
    /\ last.result # <<>>
    /\ store[DockerKey(last.arg, last.limit)].kind = "object"
    /\ store[DockerKey(last.arg, last.limit)].data # <<>>

\* C16: a get_tags call served from the cache returns the tag list fetched
\* for the same normalized image, never a list fetched for another image.
C16_HitReturnsOwnTags ==
    (last.op = "get_tags" /\ last.hit) =>
        \E a \in TagAnswersOf[last.arg] :
            a.kind = "ok" /\ last.result = TagNames(a.results)

\* The key a call of one search or tag operation works on
KeyOf(c) ==
    CASE c.op = "search_docker_hub" -> DockerKey(c.arg, c.limit)
      [] c.op = "search_quay" -> QuayKey(c.arg, c.limit)
      [] OTHER -> TagsKey(c.arg, c.limit)
SingleOps == {"search_docker_hub", "search_quay", "get_tags"}

\* C17: when the fetch of a search or tag operation returns no value or a
\* response without the results field, the operation returns the empty
\* sequence and leaves the cache store as it was, and the identical call
\* made next issues the network request again.
C17_FailedFetchLeavesCache ==
    [][/\ (IsCall /\ last'.op \in SingleOps /\ last'.fetches = 1 /\ Nothing(last'.resp))
            => (~last'.raised /\ last'.result = <<>> /\ store' = store)
       /\ (IsCall /\ last.op \in SingleOps /\ last.fetches = 1 /\ Nothing(last.resp)
                  /\ last'.op = last.op /\ last'.arg = last.arg /\ last'.limit = last.limit)
            => last'.fetches = 1]_vars

\* C17 witness: a fetch returned nothing while the key held a stale entry,
\* and the entry is still there.
C17_Witness ==
    /\ last.op \in SingleOps /\ last.fetches = 1 /\ Nothing(last.resp)
    /\ last.result = <<>>
    /\ store[KeyOf(last)].kind = "object"
    /\ store[KeyOf(last)].data # <<>>
    /\ last.at - store[KeyOf(last)].cached_at.t >= CACHE_TTL

----------------------------------------------------------------------------
(* SpecTags: the ranking of get_best_tag on every short tag list *)

MaxTags == 3

TagUniverse == {"latest", "RC", "stable", "1.2", "1.10", "1.9", "2.0", "v2.0",
                "2.9.0", "3.0.0", "3.0.0-rc1", "1.2.3.4"}

RECURSIVE SeqsUpTo(_, _)
SeqsUpTo(S, n) ==
    IF n = 0 THEN {<<>>}
    ELSE LET shorter == SeqsUpTo(S, n - 1)
         IN  shorter \cup {Append(q, x) : q \in shorter, x \in S}

\* A list of four release tags in an order that is not the ranking's
RankingExample == <<"1.2", "1.10", "1.9", "2.0">>

TagLists == SeqsUpTo(TagUniverse, MaxTags) \cup {RankingExample}

TagImage == "my_app"

\* The tags endpoint's records for a list of tag names
TagRecords(names) == [i \in 1..Len(names) |-> [has_name |-> TRUE, name |-> names[i]]]

InitTags ==
    /\ use_cache = TRUE
    /\ now = StartTime
    /\ store = [k \in {TagsKey(TagImage, DefaultTagLimit)} |-> NoFile]
    /\ last = [op |-> "none", image |-> "", raised |-> FALSE, fetches |-> 0,
               hit |-> FALSE, result |-> <<>>, best |-> ""]
    /\ written = <<>>
    /\ ticks = 0
    /\ ops = 0
    /\ remote_tags \in TagLists
    /\ writer = NoWriter

\* A call of get_best_tag(image) while the registry answers with remote_tags
BestTagCall ==
    /\ \E r \in {get_best_tag(store, now, use_cache, TagImage, Ok(TagRecords(remote_tags)))} :
           /\ store' = r.store
           /\ last' = [op |-> "get_best_tag", image |-> TagImage, raised |-> r.raised,
                       fetches |-> r.fetches, hit |-> r.hit, result |-> r.result,
                       best |-> r.best]
    /\ UNCHANGED <<use_cache, now, written, ticks, ops, remote_tags, writer>>

NextTags == BestTagCall

SpecTags == InitTags /\ [][NextTags]_vars

\* The state after get_best_tag returned
AfterBest == last.op = "get_best_tag" /\ ~last.raised
InList(t, list) == \E i \in 1..Len(list) : list[i] = t

\* C10: get_best_tag never returns a tag whose whole string, lower-cased, is
\* in the exclusion set when the list holds a tag that matches the
\* release-version shape and is not in the exclusion set.
C10_NoExcludedWhenReleaseExists ==
    (AfterBest /\ \E i \in 1..Len(last.result) :
                     /\ SemverMatch(last.result[i])
                     /\ Lower(last.result[i]) \notin Exclude)
        => /\ Lower(last.best) \notin Exclude
           /\ InList(last.best, last.result)

\* C10 witness: the list starts with an excluded tag, holds a release tag
\* further on, and the release tag was returned.
C10_Witness ==
    /\ AfterBest
    /\ Len(last.result) >= 2
    /\ Lower(last.result[1]) \in Exclude
    /\ last.best # last.result[1]
    /\ SemverMatch(last.best)

\* The 4-component key as the ranking is described: the leading v stripped,
\* the rest split on '.' and '-', the first four parts, a part of digits as
\* its value and any other part as 0, padded with 0 on the right.
AllDigits(p) == p # "" /\ \A i \in 1..Len(p) : IsDigit(CharAt(p, i))
PartValue(p) == IF AllDigits(p) THEN DigitsValue(p, 0) ELSE 0
RankKey(tag) ==
    LET t == IF tag # "" /\ CharAt(tag, 1) = "v" THEN SubSeq(tag, 2, Len(tag)) ELSE tag
        parts == Split(t)
    IN  [i \in 1..4 |-> IF i <= Len(parts) THEN PartValue(parts[i]) ELSE 0]
Survives(t) == SemverMatch(t) /\ Lower(t) \notin Exclude
Survivors(list) == {i \in 1..Len(list) : Survives(list[i])}

\* C11: when a tag survives both filters, get_best_tag returns a surviving
\* tag whose 4-component key is the greatest among the survivors; the list
\* 1.2, 1.10, 1.9, 2.0 gives 2.0, and 1.10 ranks above 1.9.
C11_BestHasGreatestKey ==
    /\ (AfterBest /\ Survivors(last.result) # {}) =>
          /\ \E i \in Survivors(last.result) : last.result[i] = last.best
          /\ \A i \in Survivors(last.result) :
                ~KeyLess(RankKey(last.best), RankKey(last.result[i]))
    /\ (AfterBest /\ last.result = RankingExample) => last.best = "2.0"
    /\ (AfterBest /\ last.result = <<"1.9", "1.10">>) => last.best = "1.10"

\* C11 witness: the four-tag example was ranked and 2.0 returned.
C11_Witness ==
    AfterBest /\ last.result = RankingExample /\ last.best = "2.0"

\* C12: for the empty list get_best_tag returns "latest"; for a non-empty
\* list in which no tag matches the release-version shape it returns the
\* first tag of the list, excluded or not.
C12_Fallbacks ==
    AfterBest =>
        /\ (last.result = <<>>) => last.best = "latest"
        /\ (last.result # <<>> /\ \A i \in 1..Len(last.result) : ~SemverMatch(last.result[i]))
              => last.best = last.result[1]

\* C12 witness: a list of tags none of which has the release shape, its first
\* tag excluded and not "latest", and that first tag returned.
C12_Witness ==
    /\ AfterBest /\ Len(last.result) >= 2
    /\ \A i \in 1..Len(last.result) : ~SemverMatch(last.result[i])
    /\ Lower(last.result[1]) \in Exclude
    /\ last.result[1] # "latest"
    /\ last.best = last.result[1]

C18_TieGoesToFirst ==
    (AfterBest /\ Survivors(last.result) # {}) =>
        \E i \in Survivors(last.result) :
            /\ last.best = last.result[i]
            /\ \A j \in Survivors(last.result) :
                  \/ KeyLess(RankKey(last.result[j]), RankKey(last.result[i]))
                  \/ (RankKey(last.result[j]) = RankKey(last.result[i]) /\ i <= j)

\* C18 witness: two different surviving tags of the greatest key, and the
\* earlier one returned although the later one is not.
C18_Witness ==
    /\ AfterBest
    /\ \E i, j \in Survivors(last.result) :
          /\ i < j
          /\ last.result[i] # last.result[j]
          /\ RankKey(last.result[i]) = RankKey(last.result[j])
          /\ last.best = last.result[i]
          /\ \A k \in Survivors(last.result) :
                ~KeyLess(RankKey(last.result[i]), RankKey(last.result[k]))
====
